---- MODULE Spec2Model ----
(***************************************************************************)
(* Model of the Elo rating engine of smartbet-pro-analytics                *)
(* (src/elo_engine.py) and of the way src/update_smartbet.py drives it.    *)
(*                                                                         *)
(* Numbers.  The engine computes with Python floats.  The model computes   *)
(* with exact rationals <<n, d>> (d > 0, lowest terms), so "equal within   *)
(* floating-point tolerance" in the prose is plain equality here.  The one *)
(* irrational operation, 10 ** x, is evaluated from a table of 10^(b/40)   *)
(* to three decimals with the exponent rounded to the nearest 1/40 (ten    *)
(* rating points); 10 ** (-x) is the exact reciprocal of 10 ** x, as it is *)
(* within one ulp for floats.                                              *)
(***************************************************************************)
EXTENDS Integers, Sequences, FiniteSets, TLC

VARIABLES sport, disk, pc, engine, out, prev, last, runs

vars == <<sport, disk, pc, engine, out, prev, last, runs>>

(***************************************************************************)
(* Bounds of the model.                                                    *)
(***************************************************************************)
\* Process runs (constructions of the engine) in one behaviour.
MaxRuns == 2
\* Longest stored form history.
MaxFormLen == 5

(***************************************************************************)
(* Exact rational arithmetic.                                              *)
(***************************************************************************)
Abs(n) == IF n < 0 THEN -n ELSE n

RECURSIVE GCD(_, _)
GCD(a, b) == IF b = 0 THEN a ELSE GCD(b, a % b)

RNorm(n, d) ==
    LET s == IF d < 0 THEN -1 ELSE 1
        g == GCD(Abs(n), Abs(d))
    IN  <<(s * n) \div g, (s * d) \div g>>

Rat(n) == <<n, 1>>
Zero == Rat(0)
One == Rat(1)

RAdd(a, b) ==
    LET g == GCD(a[2], b[2])
        l == (a[2] \div g) * b[2]
    IN  RNorm(a[1] * (l \div a[2]) + b[1] * (l \div b[2]), l)

RNeg(a) == <<-a[1], a[2]>>
RSub(a, b) == RAdd(a, RNeg(b))

RMul(a, b) ==
    LET x == RNorm(a[1], b[2])
        y == RNorm(b[1], a[2])
    IN  RNorm(x[1] * y[1], x[2] * y[2])

RInv(a) == RNorm(a[2], a[1])
RDiv(a, b) == RMul(a, RInv(b))

RLess(a, b) == RSub(a, b)[1] < 0
RLeq(a, b) == RSub(a, b)[1] <= 0

\* Nearest integer to a rational, halves away from zero.
RRound(a) ==
    IF a[1] >= 0 THEN (2 * a[1] + a[2]) \div (2 * a[2])
    ELSE -((2 * (-a[1]) + a[2]) \div (2 * a[2]))

RECURSIVE IntPow(_, _)
IntPow(b, k) == IF k = 0 THEN 1 ELSE b * IntPow(b, k - 1)

\* 10^(b/40) to three decimals, b = 0..39 (entry b + 1).
TenPowTable ==
    <<1000, 1059, 1122, 1189, 1259, 1334, 1413, 1496, 1585, 1679,
      1778, 1884, 1995, 2113, 2239, 2371, 2512, 2661, 2818, 2985,
      3162, 3350, 3548, 3758, 3981, 4217, 4467, 4732, 5012, 5309,
      5623, 5957, 6310, 6683, 7079, 7499, 7943, 8414, 8913, 9441>>

\* 10 ** x for a rational x.
TenPow(x) ==
    LET steps == Len(TenPowTable)
        k == RRound(RMul(<<Abs(x[1]), x[2]>>, Rat(steps)))
        p == RNorm(TenPowTable[(k % steps) + 1] * IntPow(10, k \div steps),
                   TenPowTable[1])
    IN  IF x[1] >= 0 THEN p ELSE RInv(p)

(***************************************************************************)
(* Values.                                                                 *)
(***************************************************************************)
\* Python's None, for the optional name arguments of expected_score.
None == "<None>"
\* Truth value of a name in `if home_team and team_a`: None and "" are false.
Truthy(name) == name # None /\ name # ""

\* A dict with no keys.
EmptyDict == [k \in {} |-> 0]

Sports == {"soccer", "basketball", "tennis"}

\* Team names that may have a record in storage, in file order.
StoredTeams == <<"Arsenal", "Chelsea">>
\* Team names a caller may pass.
TeamNames == {"", "Arsenal", "Chelsea", "Leeds"}

Neutral == <<3, 2>>
FormScores == {Rat(0), Neutral, Rat(3)}
ConstForm(v, n) == [i \in 1..n |-> v]
Forms ==
    {ConstForm(v, n) : v \in FormScores, n \in 0..MaxFormLen}
        \cup {<<Rat(3), Rat(0), Neutral>>}

StoredRatings == {500, 1500, 2500}

\* A team's record: a dict with an optional 'rating' and an optional 'form'.
ArsenalRecords ==
    {EmptyDict}
        \cup {[rating |-> r] : r \in StoredRatings}
        \cup {[form |-> f] : f \in Forms}
        \cup {[rating |-> r, form |-> ConstForm(v, MaxFormLen)] :
                  r \in StoredRatings, v \in {Rat(0), Rat(3)}}
ChelseaRecords ==
    {EmptyDict, [rating |-> 1500], [rating |-> 2500, form |-> ConstForm(Rat(3), MaxFormLen)],
     [rating |-> 500, form |-> <<Rat(0)>>]}

RecordsOf(team) == IF team = "Arsenal" THEN ArsenalRecords ELSE ChelseaRecords

\* The rating tables storage may hold: team name -> record.
Tables ==
    UNION {{t \in [S -> ArsenalRecords \cup ChelseaRecords] :
                \A team \in S : t[team] \in RecordsOf(team)} :
           S \in SUBSET {StoredTeams[i] : i \in DOMAIN StoredTeams}}

(***************************************************************************)
(* Storage: data/{sport}_elo.json as a sequence of JSON tokens.            *)
(***************************************************************************)
OpenBrace == [tok |-> "{"]
CloseBrace == [tok |-> "}"]
Junk == [tok |-> "junk"]
Entry(team, rec) == [tok |-> "entry", team |-> team, rec |-> rec]

NoFile == [exists |-> FALSE, data |-> <<>>]
File(data) == [exists |-> TRUE, data |-> data]

\* json.dump(self.ratings, f): the text written for a table.
Serialize(table) ==
    LET present == SelectSeq(StoredTeams, LAMBDA team : team \in DOMAIN table)
    IN  <<OpenBrace>>
            \o [i \in 1..Len(present) |-> Entry(present[i], table[present[i]])]
            \o <<CloseBrace>>

\* Whether json.load accepts the text.
WellFormed(data) ==
    /\ Len(data) >= 2
    /\ data[1] = OpenBrace
    /\ data[Len(data)] = CloseBrace
    /\ \A i \in 2..(Len(data) - 1) : data[i].tok = "entry"

\* json.load(f) of a well-formed text: the last entry of a key wins.
Parse(data) ==
    LET idx == 2..(Len(data) - 1)
        keys == {data[i].team : i \in idx}
        lastOf(team) == CHOOSE i \in idx :
                            /\ data[i].team = team
                            /\ \A j \in idx : data[j].team = team => j <= i
    IN  [team \in keys |-> data[lastOf(team)].rec]

(***************************************************************************)
(* EloEngine.                                                              *)
(***************************************************************************)
Ok(v) == [ok |-> TRUE, value |-> v]
Raise(e) == [ok |-> FALSE, error |-> e]

\* __init__: the attributes bound for the sport (none for an unknown one).
SportAttrs(s) ==
    IF s = "soccer"
    THEN [base_k |-> 32, home_advantage |-> 100, default_rating |-> 1500]
    ELSE IF s = "basketball"
    THEN [base_k |-> 20, home_advantage |-> 70, default_rating |-> 1500]
    ELSE EmptyDict

\* _load_ratings: the table read, or {} when open or json.load raises.
load_ratings(file) ==
    IF file.exists /\ WellFormed(file.data) THEN Parse(file.data) ELSE EmptyDict

\* Whether _load_ratings took its except branch.
LoadRaises(file) == ~(file.exists /\ WellFormed(file.data))

HasAttr(self, a) == a \in DOMAIN self.attrs

\* dict.get(team, {})
RecordOf(self, team) ==
    IF team \in DOMAIN self.ratings THEN self.ratings[team] ELSE EmptyDict

\* get_rating with self.ratings[team] in place of .get(team, {}): a KeyError
\* for a team without a record.
get_rating_subscript(self, team) ==
    IF ~HasAttr(self, "default_rating") THEN Raise("AttributeError")
    ELSE IF team \notin DOMAIN self.ratings THEN Raise("KeyError")
    ELSE LET rec == self.ratings[team]
         IN  Ok(IF "rating" \in DOMAIN rec THEN rec.rating
                ELSE self.attrs.default_rating)

\* get_rating: the default argument self.default_rating is evaluated first.
get_rating(self, team) ==
    IF ~HasAttr(self, "default_rating") THEN Raise("AttributeError")
    ELSE LET rec == RecordOf(self, team)
         IN  Ok(IF "rating" \in DOMAIN rec THEN rec.rating
                ELSE self.attrs.default_rating)

weights == <<<<3, 2>>, <<13, 10>>, <<11, 10>>, <<9, 10>>, <<7, 10>>>>
DefaultForm == <<Neutral, Neutral, Neutral, Neutral, Neutral>>

RECURSIVE RSum(_)
RSum(seq) == IF seq = <<>> THEN Zero ELSE RAdd(Head(seq), RSum(Tail(seq)))

Min(a, b) == IF a < b THEN a ELSE b

\* zip(form, weights): pairs up to the shorter of the two.
Zip(form, ws) == [i \in 1..Min(Len(form), Len(ws)) |-> <<form[i], ws[i]>>]

\* The form history get_form reads for a team.
FormOf(self, team) ==
    LET rec == RecordOf(self, team)
    IN  IF "form" \in DOMAIN rec THEN rec.form ELSE DefaultForm

\* weighted_form of a form history.
weighted_form(form) ==
    LET pairs == Zip(form, weights)
        products == [i \in DOMAIN pairs |-> RMul(pairs[i][1], pairs[i][2])]
    IN  RDiv(RSum(products), RSum(weights))

get_form(self, team) == Ok(weighted_form(FormOf(self, team)))

\* Lines 44-47 of expected_score: the two ratings after the home-advantage
\* adjustment, or the AttributeError of reading an unbound home_advantage.
home_adjusted(self, rating_a, rating_b, home_team, team_a) ==
    IF Truthy(home_team) /\ Truthy(team_a) /\ team_a = home_team
    THEN IF HasAttr(self, "home_advantage")
         THEN Ok(<<RAdd(rating_a, Rat(self.attrs.home_advantage)), rating_b>>)
         ELSE Raise("AttributeError")
    ELSE IF Truthy(home_team) /\ Truthy(team_a)
    THEN IF HasAttr(self, "home_advantage")
         THEN Ok(<<rating_a, RAdd(rating_b, Rat(self.attrs.home_advantage))>>)
         ELSE Raise("AttributeError")
    ELSE Ok(<<rating_a, rating_b>>)

\* Line 49: 1 / (1 + 10 ** ((rating_b - rating_a) / 400)).
logistic(rating_a, rating_b) ==
    RDiv(One, RAdd(One, TenPow(RDiv(RSub(rating_b, rating_a), Rat(400)))))

expected_score(self, rating_a, rating_b, home_team, team_a) ==
    LET adj == home_adjusted(self, rating_a, rating_b, home_team, team_a)
    IN  IF adj.ok THEN Ok(logistic(adj.value[1], adj.value[2])) ELSE adj

\* Lines 58-59: rating + (form - 1.5) * 20.
adjusted(rating, form) == RAdd(Rat(rating), RMul(RSub(form, Neutral), Rat(20)))

\* Line 63.
prob_draw_of(self, prob_home_win, prob_away_win) ==
    IF self.sport = "soccer"
    THEN RSub(One, RAdd(prob_home_win, prob_away_win))
    ELSE Zero

\* Line 66 with the draw term left out of the total.
total_without_draw(prob_home_win, prob_away_win, prob_draw) ==
    RAdd(prob_home_win, prob_away_win)

\* Line 66.
total_of(prob_home_win, prob_away_win, prob_draw) ==
    RAdd(RAdd(prob_home_win, prob_away_win), prob_draw)

\* Lines 65-69: the three probabilities as returned.
normalized(self, prob_home_win, prob_away_win, prob_draw) ==
    IF self.sport = "soccer"
    THEN LET total == total_of(prob_home_win, prob_away_win, prob_draw)
         IN  <<RDiv(prob_home_win, total), RDiv(prob_away_win, total),
               RDiv(prob_draw, total)>>
    ELSE <<prob_home_win, prob_away_win, prob_draw>>

predict_match(self, home_team, away_team) ==
    LET rating_home == get_rating(self, home_team)
        rating_away == get_rating(self, away_team)
        form_home == get_form(self, home_team).value
        form_away == get_form(self, away_team).value
        adjusted_home == adjusted(rating_home.value, form_home)
        adjusted_away == adjusted(rating_away.value, form_away)
        prob_home_win ==
            expected_score(self, adjusted_home, adjusted_away, home_team, home_team)
        prob_away_win ==
            expected_score(self, adjusted_away, adjusted_home, away_team, home_team)
        prob_draw == prob_draw_of(self, prob_home_win.value, prob_away_win.value)
        probs == normalized(self, prob_home_win.value, prob_away_win.value, prob_draw)
    IN  IF ~rating_home.ok THEN rating_home
        ELSE IF ~rating_away.ok THEN rating_away
        ELSE IF ~prob_home_win.ok THEN prob_home_win
        ELSE IF ~prob_away_win.ok THEN prob_away_win
        ELSE Ok([home_win_prob |-> probs[1],
                 away_win_prob |-> probs[2],
                 draw_prob |-> probs[3],
                 home_rating |-> rating_home.value,
                 away_rating |-> rating_away.value,
                 home_form |-> form_home,
                 away_form |-> form_away])

(***************************************************************************)
(* The state machine.                                                      *)
(*   sport   the sport the engine of this storage file is built for        *)
(*   disk    data/{sport}_elo.json                                         *)
(*   pc      "start" no engine yet, "idle" engine constructed,             *)
(*           "returned" a call has returned and its result is in last,     *)
(*           "saving" inside _save_ratings with the file open              *)
(*   engine  the EloEngine instance: sport, ratings, attrs                 *)
(*   out     text _save_ratings has still to write                         *)
(*   prev    storage as it was when the current or last save began         *)
(*   last    the last call and its outcome                                 *)
(*   runs    process runs so far                                           *)
(***************************************************************************)
NoEngine ==
    [sport |-> "", ratings |-> EmptyDict, attrs |-> EmptyDict, load_raised |-> FALSE]

\* Ratings and names a caller passes to expected_score.
ScoreRatings == {1500, 1900}
ScoreNames == {None, "", "Arsenal", "Chelsea"}

\* What data/{sport}_elo.json may hold when the process starts.
InitialFiles ==
    {NoFile, File(<<>>), File(<<Junk>>), File(<<OpenBrace, Junk, CloseBrace>>)}
        \cup {File(Serialize(t)) : t \in Tables}

Init ==
    /\ sport \in Sports
    /\ disk \in InitialFiles
    /\ pc = "start"
    /\ engine = NoEngine
    /\ out = <<>>
    /\ prev = disk
    /\ last = [op |-> "none"]
    /\ runs = 0

\* EloEngine(sport): __init__.
Construct ==
    /\ pc = "start"
    /\ runs < MaxRuns
    /\ runs' = runs + 1
    /\ engine' = [sport |-> sport,
                  ratings |-> load_ratings(disk),
                  attrs |-> SportAttrs(sport),
                  load_raised |-> LoadRaises(disk)]
    /\ pc' = "idle"
    /\ last' = [op |-> "init"]
    /\ UNCHANGED <<sport, disk, out, prev>>

GetRating(team) ==
    /\ pc = "idle"
    /\ pc' = "returned"
    /\ last' = [op |-> "get_rating", team |-> team, res |-> get_rating(engine, team)]
    /\ UNCHANGED <<sport, disk, engine, out, prev, runs>>

GetForm(team) ==
    /\ pc = "idle"
    /\ pc' = "returned"
    /\ last' = [op |-> "get_form", team |-> team,
                form |-> FormOf(engine, team),
                res |-> get_form(engine, team)]
    /\ UNCHANGED <<sport, disk, engine, out, prev, runs>>

ExpectedScore(rating_a, rating_b, home_team, team_a) ==
    /\ pc = "idle"
    /\ pc' = "returned"
    /\ last' = [op |-> "expected_score",
                rating_a |-> rating_a, rating_b |-> rating_b,
                home_team |-> home_team, team_a |-> team_a,
                adj |-> home_adjusted(engine, Rat(rating_a), Rat(rating_b),
                                      home_team, team_a),
                res |-> expected_score(engine, Rat(rating_a), Rat(rating_b),
                                       home_team, team_a)]
    /\ UNCHANGED <<sport, disk, engine, out, prev, runs>>

PredictMatch(home_team, away_team) ==
    /\ pc = "idle"
    /\ pc' = "returned"
    /\ last' = [op |-> "predict_match",
                home_team |-> home_team, away_team |-> away_team,
                res |-> predict_match(engine, home_team, away_team)]
    /\ UNCHANGED <<sport, disk, engine, out, prev, runs>>

\* The caller has used the result of the call and goes on.
Return ==
    /\ pc = "returned"
    /\ pc' = "idle"
    /\ last' = [op |-> "none"]
    /\ UNCHANGED <<sport, disk, engine, out, prev, runs>>

\* _save_ratings, line 31: open(..., 'w') truncates the file (or creates it).
SaveOpen ==
    /\ pc = "idle"
    /\ prev' = disk
    /\ disk' = File(<<>>)
    /\ out' = Serialize(engine.ratings)
    /\ pc' = "saving"
    /\ last' = [op |-> "save", res |-> "open"]
    /\ UNCHANGED <<sport, engine, runs>>

\* _save_ratings, line 32: json.dump writes the text piece by piece.
SaveWrite ==
    /\ pc = "saving"
    /\ out # <<>>
    /\ disk' = File(Append(disk.data, Head(out)))
    /\ out' = Tail(out)
    /\ UNCHANGED <<sport, pc, engine, prev, last, runs>>

\* The with block ends: the file is closed and _save_ratings returns.
SaveClose ==
    /\ pc = "saving"
    /\ out = <<>>
    /\ pc' = "idle"
    /\ last' = [op |-> "save", res |-> "ok"]
    /\ UNCHANGED <<sport, disk, engine, out, prev, runs>>

\* A write raises (disk full, I/O error): the with block closes the file and
\* the exception leaves _save_ratings.
SaveRaises ==
    /\ pc = "saving"
    /\ out # <<>>
    /\ pc' = "idle"
    /\ out' = <<>>
    /\ last' = [op |-> "save", res |-> "raised"]
    /\ UNCHANGED <<sport, disk, engine, prev, runs>>

\* The process ends or is killed, at any point; storage stays as it is.
Exit ==
    /\ pc \in {"idle", "returned", "saving"}
    /\ pc' = "start"
    /\ engine' = NoEngine
    /\ out' = <<>>
    /\ last' = [op |-> "exit", during |-> pc]
    /\ UNCHANGED <<sport, disk, prev, runs>>

\* The engine as src/update_smartbet.py drives it: constructed, queried, never
\* saved.
Next ==
    \/ Construct
    \/ \E team \in TeamNames : GetRating(team)
    \/ \E team \in TeamNames : GetForm(team)
    \/ \E a, b \in ScoreRatings : \E h, t \in ScoreNames : ExpectedScore(a, b, h, t)
    \/ \E h, a \in TeamNames : PredictMatch(h, a)
    \/ Return
    \/ Exit

Spec == Init /\ [][Next]_vars

\* The engine with a caller that also saves the table it loaded.
NextStorage ==
    \/ Construct
    \/ \E team \in TeamNames : GetRating(team)
    \/ Return
    \/ SaveOpen
    \/ SaveWrite
    \/ SaveClose
    \/ SaveRaises
    \/ Exit

StorageSpec == Init /\ [][NextStorage]_vars

(***************************************************************************)
(* Properties.                                                             *)
(***************************************************************************)
Returned(op) == pc = "returned" /\ last.op = op
Positive(a) == RLess(Zero, a)
NonNegative(a) == RLeq(Zero, a)
ProbSum(r) == RAdd(RAdd(r.home_win_prob, r.draw_prob), r.away_win_prob)
DistinctTeams(h, a) == Truthy(h) /\ Truthy(a) /\ h # a

\* C1: every soccer prediction has home_win_prob, draw_prob and away_win_prob
\* all >= 0, whatever the names, ratings and forms.
C1_SoccerProbabilitiesNonNegative ==
    (Returned("predict_match") /\ engine.sport = "soccer") =>
        /\ last.res.ok
        /\ NonNegative(last.res.value.home_win_prob)
        /\ NonNegative(last.res.value.draw_prob)
        /\ NonNegative(last.res.value.away_win_prob)

\* C2: every soccer prediction has home_win_prob + draw_prob + away_win_prob
\* equal to 1, rating differences of 2000 included.
C2_SoccerProbabilitiesSumToOne ==
    (Returned("predict_match") /\ engine.sport = "soccer") =>
        /\ last.res.ok
        /\ ProbSum(last.res.value) = One

\* A soccer prediction between stored teams 2000 rating points apart.
C2_Witness ==
    /\ Returned("predict_match")
    /\ engine.sport = "soccer"
    /\ last.res.ok
    /\ Abs(last.res.value.home_rating - last.res.value.away_rating) = 2000

\* C3: soccer, two distinct teams, 1500 against 1500, neutral form: home_win_prob
\* > away_win_prob > 0, draw_prob > 0, and the three sum to 1.
C3_EqualRatingsScenario ==
    (/\ Returned("predict_match")
     /\ engine.sport = "soccer"
     /\ DistinctTeams(last.home_team, last.away_team)
     /\ last.res.ok
     /\ last.res.value.home_rating = 1500
     /\ last.res.value.away_rating = 1500
     /\ last.res.value.home_form = Neutral
     /\ last.res.value.away_form = Neutral) =>
        /\ RLess(last.res.value.away_win_prob, last.res.value.home_win_prob)
        /\ Positive(last.res.value.away_win_prob)
        /\ Positive(last.res.value.draw_prob)
        /\ ProbSum(last.res.value) = One

\* C4: every basketball prediction has draw_prob = 0 and home_win_prob +
\* away_win_prob = 1, whatever the names; with equal ratings and neutral form for
\* two distinct teams, home_win_prob > 1/2.
C4_BasketballTwoOutcome ==
    (Returned("predict_match") /\ engine.sport = "basketball") =>
        /\ last.res.ok
        /\ last.res.value.draw_prob = Zero
        /\ RAdd(last.res.value.home_win_prob, last.res.value.away_win_prob) = One
        /\ (/\ DistinctTeams(last.home_team, last.away_team)
            /\ last.res.value.home_rating = last.res.value.away_rating
            /\ last.res.value.home_form = Neutral
            /\ last.res.value.away_form = Neutral)
               => RLess(<<1, 2>>, last.res.value.home_win_prob)

\* C5: a constructed engine always has base_k, home_advantage and default_rating
\* bound (construction for an unknown sport does not yield an engine).
C5_SportParametersBound ==
    pc # "start" =>
        {"base_k", "home_advantage", "default_rating"} \subseteq DOMAIN engine.attrs

\* sum(value_i * weight_i) / sum(weight_i) over the first Len(form) weights only.
PairedWeightsMean(form) ==
    LET n == Min(Len(form), Len(weights))
    IN  RDiv(RSum([i \in 1..n |-> RMul(form[i], weights[i])]),
             RSum([i \in 1..n |-> weights[i]]))

\* C6: for a form history of 1 to 4 entries the weighted form divides by the sum
\* of the weights paired with a value, so a history of equal entries v yields v.
C6_WeightedFormUsesPairedWeights ==
    (Returned("get_form") /\ Len(last.form) \in 1..(Len(weights) - 1)) =>
        /\ last.res.ok
        /\ last.res.value = PairedWeightsMean(last.form)
        /\ (\A i \in DOMAIN last.form : last.form[i] = last.form[1])
               => last.res.value = last.form[1]

\* C7: from the moment a save begins over a complete stored table, storage holds
\* the complete previous text or the complete text of the table being saved,
\* never less.
C7_SaveIsAtomic ==
    (/\ pc = "saving" \/ (pc = "idle" /\ last.op = "save")
     /\ prev.exists
     /\ WellFormed(prev.data)) =>
        \/ disk = prev
        \/ disk = File(Serialize(engine.ratings))

\* C8: after a load failure at construction the table is empty and every
\* get_rating, get_form and predict_match call returns, with default values.
C8_LoadFailureLeavesEngineUsable ==
    (pc # "start" /\ engine.load_raised) =>
        /\ engine.ratings = EmptyDict
        /\ Returned("get_rating") =>
               last.res.ok /\ last.res.value = 1500
        /\ Returned("get_form") =>
               last.res.ok /\ last.res.value = Neutral
        /\ Returned("predict_match") =>
               /\ last.res.ok
               /\ last.res.value.home_rating = 1500
               /\ last.res.value.away_rating = 1500
               /\ last.res.value.home_form = Neutral
               /\ last.res.value.away_form = Neutral

\* C9: in a soccer or basketball engine, get_rating of a team without a record
\* returns 1500 and its form is the neutral sequence (weighted form 3/2), without
\* error; a record lacking 'rating' or 'form' gives the same default for that
\* field.
C9_MissingDataReadsDefaults ==
    (pc = "returned" /\ engine.sport \in {"soccer", "basketball"}) =>
        /\ (/\ last.op = "get_rating"
            /\ \/ last.team \notin DOMAIN engine.ratings
               \/ "rating" \notin DOMAIN engine.ratings[last.team])
               => last.res.ok /\ last.res.value = 1500
        /\ (/\ last.op = "get_form"
            /\ \/ last.team \notin DOMAIN engine.ratings
               \/ "form" \notin DOMAIN engine.ratings[last.team])
               => /\ last.res.ok
                  /\ last.form = <<Neutral, Neutral, Neutral, Neutral, Neutral>>
                  /\ last.res.value = Neutral

\* get_rating of a team without a record, in an engine whose table has records.
C9_Witness ==
    /\ Returned("get_rating")
    /\ engine.sport \in {"soccer", "basketball"}
    /\ engine.ratings # EmptyDict
    /\ last.team \notin DOMAIN engine.ratings
    /\ last.res.ok

\* C10: expected_score with team A as home is strictly above the neutral
\* evaluation, with team B as home strictly below it; the home advantage is added
\* to exactly one rating when a home team is specified, to neither otherwise
\* (stated for the engines whose home advantage is bound).
C10_HomeAdvantageAsymmetry ==
    (Returned("expected_score") /\ HasAttr(engine, "home_advantage")) =>
        LET neutral == logistic(Rat(last.rating_a), Rat(last.rating_b))
            a == Rat(last.rating_a)
            b == Rat(last.rating_b)
            h == Rat(engine.attrs.home_advantage)
        IN  /\ last.res.ok
            /\ (Truthy(last.home_team) /\ last.team_a = last.home_team)
                   => RLess(neutral, last.res.value)
            /\ (Truthy(last.home_team) /\ Truthy(last.team_a)
                    /\ last.team_a # last.home_team)
                   => RLess(last.res.value, neutral)
            /\ Truthy(last.home_team) =>
                   \/ last.adj.value = <<RAdd(a, h), b>>
                   \/ last.adj.value = <<a, RAdd(b, h)>>
            /\ last.home_team = None => last.adj.value = <<a, b>>

====
